---- MODULE Spec2Model ----
(***************************************************************************)
(* Verification model of the light-scheduling core of                      *)
(* fritz-christmas-light-controller: the interval deriver                  *)
(* (StateChange::from_entries_between and Config::intervals, config.rs)    *)
(* under Spec, and the timer thread with its control and tick channels     *)
(* (timer.rs) under SpecTimer and SpecTimerTest.                           *)
(*                                                                         *)
(* Instants (DateTime<Local>) are whole seconds since midnight of calendar *)
(* day 0, in a local zone of fixed UTC offset (the +01:00 of the           *)
(* repository's tests), so dt(date, time) is total and                     *)
(* date_naive(dt(d, t)) = d; the panic of dt's unwrap() on a local time    *)
(* that a daylight-saving shift skips or repeats is not modelled.          *)
(* Calendar days are integers; day 0 is the 2022-11-28 of the test         *)
(* fixture.                                                                *)
(***************************************************************************)
EXTENDS Integers, Sequences, FiniteSets, TLC

\* ------------------------------------------------------------------ bounds

\* longest enumerated entry list
MaxEntries == 2
\* enumerated windows and dated entries lie on calendar days 0 .. NumDays-1
NumDays == 3
\* times of day the enumeration draws from (midnight and noon)
SlotTimes == {0, 43200}

\* seconds of one calendar day (chrono's Duration::days(1))
SecondsPerDay == 86400

\* ------------------------------------------------------------- data model

\* enum State { Off, On }, Off the default
Off == "off"
On == "on"
State == {Off, On}
DefaultState == Off

\* enum When { Daily, Date(NaiveDate) }: Daily is -1, Date(d) is the day d >= 0
Daily == -1
Date(d) == d

\* struct Entry { when, time, state }
Entry(w, t, s) == [when |-> w, time |-> t, state |-> s]

\* struct StateChange { when, state }
StateChange(w, s) == [when |-> w, state |-> s]

\* struct Interval { start, end, state }
Interval(a, b, s) == [start |-> a, end |-> b, state |-> s]

\* fn dt(date, time) -> DateTime<Local>
dt(date, time) == date * SecondsPerDay + time

\* DateTime::date_naive
date_naive(t) == t \div SecondsPerDay

\* time of day as h:m:s
hms(h, m, s) == h * 3600 + m * 60 + s

\* ------------------------------------------------------------ program state

VARIABLES
    entries,        \* Config.entries
    begin,          \* Config.start
    end,            \* Config.end
    pc,             \* position inside Config::intervals / from_entries_between
    state_changes,  \* the local Vec<StateChange> of from_entries_between
    intervals,      \* the Vec<Interval> returned by Config::intervals
    current,        \* result of find(is_current): index of the interval, 0 for None
    read_first,     \* first Local::now() of the scan of find(is_current)
    read_at         \* the Local::now() the scan ended with

\* the timer thread, its two channels and their users (timer.rs)
VARIABLES
    now,            \* Local::now(), the wall clock
    regular_update, \* TimerState.regular_update, the poll interval
    times,          \* TimerState.times
    tpc,            \* position of the timer thread inside TimerState::wait
    deadline,       \* the instant the pending recv_timeout times out
    config_q,       \* buffer of the control channel, flume::bounded(1)
    opc,            \* the thread owning the Timer: idle, inside send, or Timer dropped
    omsg,           \* the TimerConfig the owner is sending
    calls,          \* number of add_time / replace_times calls made
    rx,             \* state of every clone handed out by Timer::timer_rx
    ticks,          \* number of ticks the timer thread handed over
    delivered,      \* number of ticks taken by receivers
    quiet_since,    \* instant the last message, a Replace of past times only, was
                    \* processed; -1 behind any other message and behind a tick
    plan            \* the wake times the test scenario installs

dvars == <<entries, begin, end, pc, state_changes, intervals, current,
           read_first, read_at>>
tvars == <<now, regular_update, times, tpc, deadline, config_q, opc, omsg,
           calls, rx, ticks, delivered, quiet_since, plan>>
\* the schedule worker thread, its watcher and the device (src/schedule.rs,
\* src/bin/fritz_dect_controller.rs); the clock counts minutes
VARIABLES
    wnow,             \* Local::now()
    wpc,              \* position of the worker thread inside its loop
    schedule,         \* the local `schedule`: Schedule.actions
    schedule_changed, \* the local `schedule_changed`
    wnext,            \* the local `next`: the action the select waits for
    wdeadline,        \* instant the default(5 minutes) branch of the select is due
    file,             \* the schedule file on disk: its lines, or Unreadable
    file_q,           \* notifications buffered in the unbounded file-change channel
    watcher,          \* the forwarding thread of ScheduleWatcher::watch
    dev_on,           \* switch state of the device
    wevent            \* what the worker's last step met

wvars == <<wnow, wpc, schedule, schedule_changed, wnext, wdeadline, file,
           file_q, watcher, dev_on, wevent>>

\* RealtFritzUpdater::set_state and the device it switches (fritz_updater.rs)
VARIABLES
    dev_kind,       \* what list_devices reports for the id: a FritzDect2XX, an
                    \* Other device, or no device
    dev_switch,     \* the switch state of the device itself
    upc,            \* position inside set_state
    ucall,          \* the call in progress: desired state, is_on() read, requests
    ulog            \* the calls that returned, in order

uvars == <<dev_kind, dev_switch, upc, ucall, ulog>>

\* Schedule::start of fritzctrl (fritzctrl/src/schedule/schedule.rs)
VARIABLES
    s_actions,      \* Schedule.actions, sorted by from_string
    s_now,          \* Local::now()
    s_start,        \* the instant start was called
    spc,            \* position inside start
    s_next,         \* the local `next`: index of the action slept for, 0 for None
    s_ran           \* indices of the actions run, in the order they were run

svars == <<s_actions, s_now, s_start, spc, s_next, s_ran>>

\* duration_pretty and duration_parse (duration.rs)
VARIABLES
    d_in,           \* the Duration given to duration_pretty, in whole seconds: <<d>>
    d_text,         \* the text: a sequence of characters
    d_out,          \* the Result of duration_parse
    dpc             \* what has been applied so far

pvars == <<d_in, d_text, d_out, dpc>>

\* FritzClient::request (fritzapi client.rs)
VARIABLES
    c_sid,          \* FritzClient.sid: "None" or "Some"
    c_pc,           \* position inside request_attempt
    c_cmd,          \* the command requested
    c_count,        \* request_count of the attempt
    c_trace,        \* what the command did so far: session and API requests
    c_ret,          \* what request returned
    c_cmds          \* commands requested so far

cvars == <<c_sid, c_pc, c_cmd, c_count, c_trace, c_ret, c_cmds>>

\* everything outside the interval deriver and the timer
xvars == <<wvars, uvars, svars, pvars, cvars, cvars>>

vars == <<dvars, tvars, xvars>>

\* ------------------------------------------- StateChange::from_entries_between

\* `for entry in entries` of one scanned day: the changes pushed, in list order
RECURSIVE PushEntries(_, _, _)
PushEntries(es, current_date, acc) ==
    IF es = <<>> THEN acc
    ELSE LET entry == Head(es)
         IN  IF entry.when = Daily \/ entry.when = Date(current_date)
               THEN PushEntries(Tail(es), current_date,
                        Append(acc, StateChange(dt(current_date, entry.time), entry.state)))
               ELSE PushEntries(Tail(es), current_date, acc)

\* `while current_date < end_date`: every scanned day, one day at a time
RECURSIVE ScanDays(_, _, _, _)
ScanDays(es, current_date, end_date, acc) ==
    IF current_date < end_date
      THEN ScanDays(es, current_date + 1, end_date, PushEntries(es, current_date, acc))
      ELSE acc

\* mutation: `while current_date <= end_date`, the end date scanned too
ExpandEntries_inclusive(es, b, e) ==
    ScanDays(es, date_naive(b), date_naive(e) + 1, <<>>)

\* lines 89-106: the candidates of the window
ExpandEntries(es, b, e) == ScanDays(es, date_naive(b), date_naive(e), <<>>)

\* mutation: insertion in front of equal keys, an unstable sort
RECURSIVE InsertByWhen_unstable(_, _)
InsertByWhen_unstable(sorted, x) ==
    IF sorted = <<>> THEN <<x>>
    ELSE IF Head(sorted).when < x.when
           THEN <<Head(sorted)>> \o InsertByWhen_unstable(Tail(sorted), x)
           ELSE <<x>> \o sorted

\* insertion behind every element whose key is not greater: a stable sort step
RECURSIVE InsertByWhen(_, _)
InsertByWhen(sorted, x) ==
    IF sorted = <<>> THEN <<x>>
    ELSE IF Head(sorted).when <= x.when
           THEN <<Head(sorted)>> \o InsertByWhen(Tail(sorted), x)
           ELSE <<x>> \o sorted

\* mutation: the sort left out, the candidates stay in push order
SortByWhen_unsorted(s) == s

\* Vec::sort_by_key(|ea| ea.when), a stable sort
RECURSIVE SortByWhen(_)
SortByWhen(s) ==
    IF s = <<>> THEN <<>>
    ELSE InsertByWhen(SortByWhen(SubSeq(s, 1, Len(s) - 1)), s[Len(s)])

\* Vec::dedup_by_key(|ea| ea.when): of consecutive equal keys the first stays
RECURSIVE DedupByWhen(_)
DedupByWhen(s) ==
    IF Len(s) <= 1 THEN s
    ELSE LET rest == DedupByWhen(SubSeq(s, 1, Len(s) - 1))
         IN  IF s[Len(s)].when = rest[Len(rest)].when
               THEN rest
               ELSE Append(rest, s[Len(s)])

\* mutation: `s.when >= begin`, a leading change also in front of one at begin
EnsureBegin_orEqual(s, b) ==
    LET needs_begin == IF s = <<>> THEN FALSE ELSE s[1].when >= b
    IN  IF needs_begin THEN <<StateChange(b, DefaultState)>> \o s ELSE s

\* lines 114-126: a leading change at begin when the first one is later
EnsureBegin(s, b) ==
    LET needs_begin == IF s = <<>> THEN FALSE ELSE s[1].when > b
    IN  IF needs_begin THEN <<StateChange(b, DefaultState)>> \o s ELSE s

\* mutation: `s.when > end`, the trailing change never pushed
EnsureEnd_flipped(s, e) ==
    LET needs_end == IF s = <<>> THEN FALSE ELSE s[Len(s)].when > e
    IN  IF needs_end THEN Append(s, StateChange(e, DefaultState)) ELSE s

\* lines 127-133: a trailing change at end when the last one is earlier
EnsureEnd(s, e) ==
    LET needs_end == IF s = <<>> THEN FALSE ELSE s[Len(s)].when < e
    IN  IF needs_end THEN Append(s, StateChange(e, DefaultState)) ELSE s

\* mutation: the closure returns true for every element
RetainChanging_all(s) == s

\* lines 136-146: Vec::retain with the running `state` of the element before
RetainChanging(s) ==
    LET keep(i) == i = 1 \/ s[i].state # s[i - 1].state
        F[i \in 0..Len(s)] ==
            IF i = 0 THEN <<>>
            ELSE IF keep(i) THEN Append(F[i - 1], s[i]) ELSE F[i - 1]
    IN  F[Len(s)]

\* mutation: `skip(2)`, each change paired with the one after the next
ZipIntervals_skip2(s) ==
    [i \in 1..(IF Len(s) <= 1 THEN 0 ELSE Len(s) - 2) |->
        Interval(s[i].when, s[i + 2].when, s[i].state)]

\* Config::intervals: zip the changes with themselves shifted by one
ZipIntervals(s) ==
    [i \in 1..(IF Len(s) = 0 THEN 0 ELSE Len(s) - 1) |->
        Interval(s[i].when, s[i + 1].when, s[i].state)]

\* mutation: the end instant included
contains_time_closed(iv, t) == iv.start <= t /\ t <= iv.end

\* Interval::contains_time
contains_time(iv, t) == iv.start <= t /\ t < iv.end

\* ------------------------------------------------------------------ inputs

Days == 0..(NumDays - 1)
Instants == {dt(d, t) : d \in Days, t \in SlotTimes}
Whens == {Daily} \cup {Date(d) : d \in Days}
Entries == {Entry(w, t, s) : w \in Whens, t \in SlotTimes, s \in State}
EntryLists == UNION {[1..n -> Entries] : n \in 0..MaxEntries}

\* the configuration of tests::create_intervals (config.rs 235-258)
FixtureEntries ==
    << Entry(Date(2), hms(16, 0, 0), On),
       Entry(Date(3), hms(14, 0, 0), On),
       Entry(Daily, hms(13, 0, 0), On),
       Entry(Daily, hms(14, 0, 0), Off),
       Entry(Daily, hms(18, 0, 0), On),
       Entry(Daily, hms(22, 0, 0), Off) >>
FixtureBegin == dt(0, hms(0, 0, 0))
FixtureEnd == dt(3, hms(23, 59, 59))

\* a message of the control channel: enum TimerConfig { Add(t), Replace(ts) }
Add(t) == [kind |-> "add", items |-> <<t>>]
Replace(ts) == [kind |-> "replace", items |-> ts]
NoMsg == [kind |-> "none", items |-> <<>>]

\* no Timer has been created
NoTimer ==
    /\ now = 0 /\ regular_update = 0 /\ times = <<>> /\ tpc = "none"
    /\ deadline = 0 /\ config_q = <<>> /\ opc = "none" /\ omsg = NoMsg
    /\ calls = 0 /\ rx = <<>> /\ ticks = 0 /\ delivered = 0
    /\ quiet_since = -1 /\ plan = <<>>

\* no configuration is being evaluated
NoConfig ==
    /\ entries = <<>> /\ begin = 0 /\ end = 0 /\ pc = "none"
    /\ state_changes = <<>> /\ intervals = <<>>
    /\ current = 0 /\ read_first = 0 /\ read_at = 0

\* no schedule worker is running
NoWorker ==
    /\ wnow = 0 /\ wpc = "none" /\ schedule = <<>> /\ schedule_changed = FALSE
    /\ wnext = <<>> /\ wdeadline = 0 /\ file = <<>> /\ file_q = 0
    /\ watcher = "none" /\ dev_on = FALSE /\ wevent = "none"

\* set_state is not in use
NoUpdater ==
    /\ dev_kind = "none" /\ dev_switch = FALSE /\ upc = "none"
    /\ ucall = <<>> /\ ulog = <<>>

\* fritzctrl's schedule is not running
NoFritzctrl ==
    /\ s_actions = <<>> /\ s_now = 0 /\ s_start = 0 /\ spc = "none"
    /\ s_next = 0 /\ s_ran = <<>>

\* no duration is converted
NoDuration ==
    /\ d_in = <<>> /\ d_text = <<>> /\ d_out = <<>> /\ dpc = "none"

\* no FritzClient is at work
NoClient ==
    /\ c_sid = "None" /\ c_pc = "none" /\ c_cmd = "none" /\ c_count = 0
    /\ c_trace = <<>> /\ c_ret = "none" /\ c_cmds = 0

\* nothing outside the interval deriver and the timer is running
NoOthers == NoWorker /\ NoUpdater /\ NoFritzctrl /\ NoDuration /\ NoClient

\* ------------------------------------------------------------- state machine

Init ==
    /\ \/ /\ entries \in EntryLists
          /\ begin \in Instants
          /\ end \in Instants
       \/ /\ entries = FixtureEntries
          /\ begin = FixtureBegin
          /\ end = FixtureEnd
    /\ pc = "start"
    /\ state_changes = <<>>
    /\ intervals = <<>>
    /\ current = 0 /\ read_first = 0 /\ read_at = 0
    /\ NoTimer
    /\ NoOthers

\* lines 89-106
Expand ==
    /\ pc = "start"
    /\ state_changes' = ExpandEntries(entries, begin, end)
    /\ pc' = "expanded"
    /\ UNCHANGED <<entries, begin, end, intervals, current, read_first, read_at,
                   tvars, xvars>>

\* lines 108-111
SortDedup ==
    /\ pc = "expanded"
    /\ state_changes' = DedupByWhen(SortByWhen(state_changes))
    /\ pc' = "deduped"
    /\ UNCHANGED <<entries, begin, end, intervals, current, read_first, read_at,
                   tvars, xvars>>

\* lines 113-133
EnsureBeginEnd ==
    /\ pc = "deduped"
    /\ state_changes' = EnsureEnd(EnsureBegin(state_changes, begin), end)
    /\ pc' = "bounded"
    /\ UNCHANGED <<entries, begin, end, intervals, current, read_first, read_at,
                   tvars, xvars>>

\* lines 135-155
Retain ==
    /\ pc = "bounded"
    /\ state_changes' = RetainChanging(state_changes)
    /\ pc' = "returned"
    /\ UNCHANGED <<entries, begin, end, intervals, current, read_first, read_at,
                   tvars, xvars>>

\* Config::intervals, lines 34-42
Intervals ==
    /\ pc = "returned"
    /\ intervals' = ZipIntervals(state_changes)
    /\ pc' = "done"
    /\ UNCHANGED <<entries, begin, end, state_changes, current, read_first,
                   read_at, tvars, xvars>>

Next == Expand \/ SortDedup \/ EnsureBeginEnd \/ Retain \/ Intervals

Spec == Init /\ [][Next]_vars

\* ----------------------------------------------- vocabulary of the properties

\* the calendar days d with begin.date <= d < end.date
ScannedDays == {d \in 0..(end \div SecondsPerDay) :
                    begin \div SecondsPerDay <= d /\ d < end \div SecondsPerDay}

\* an entry instance <<i, d>>: entry i expanded on the scanned day d
EntryInstances ==
    {p \in (1..Len(entries)) \X ScannedDays :
        entries[p[1]].when = Daily \/ entries[p[1]].when = Date(p[2])}

\* the instant an entry instance resolves to
InstantOf(p) == p[2] * SecondsPerDay + entries[p[1]].time

\* the instance that decides the state at t: the latest one not after t, the
\* first-listed one among those of that instant
Deciding(t) ==
    LET le == {p \in EntryInstances : InstantOf(p) <= t}
    IN  CHOOSE p \in le : \A q \in le :
            \/ InstantOf(q) < InstantOf(p)
            \/ InstantOf(q) = InstantOf(p) /\ p[1] <= q[1]

\* the state the entries prescribe at t, Off before the first instance
PrescribedState(t) ==
    IF \E p \in EntryInstances : InstantOf(p) <= t
      THEN entries[Deciding(t)[1]].state
      ELSE Off

\* the state the entries prescribe behind their latest instance
FinalState ==
    IF EntryInstances = {} THEN Off
    ELSE LET last == CHOOSE p \in EntryInstances :
                        \A q \in EntryInstances : InstantOf(q) <= InstantOf(p)
         IN  PrescribedState(InstantOf(last))

LastInterval == intervals[Len(intervals)]

Returned == pc = "done"

\* ------------------------------------------------------------------- C1

\* C1 as stated: for a non-empty entry list and begin < end the returned
\* intervals are non-empty and the last one ends at the window's end.
C1_Original ==
    Returned /\ entries # <<>> /\ begin < end
        => intervals # <<>> /\ LastInterval.end = end

\* C1 amended: for a non-empty entry list and begin < end, the intervals are
\* non-empty and the last one ends at the window's end exactly when some entry
\* instance exists and the latest one is On; otherwise the trailing Off span
\* has no interval: the sequence is empty or ends before the window's end.
C1_LastIntervalEnd ==
    Returned /\ entries # <<>> /\ begin < end
        => IF EntryInstances # {} /\ FinalState = On
             THEN intervals # <<>> /\ LastInterval.end = end
             ELSE intervals = <<>> \/ LastInterval.end < end

C1_Witness ==
    /\ Returned /\ entries # <<>> /\ begin < end
    /\ Len(intervals) >= 2
    /\ LastInterval.end = end
    /\ LastInterval.state = On

\* ------------------------------------------------------------------- C2

\* C2 as stated: for a non-empty entry list and begin < end the first
\* interval starts exactly at begin, and no returned StateChange and no
\* interval start lies before begin, also when begin falls mid-day behind
\* entries of its calendar day.
C2_FirstStartIsBegin ==
    Returned /\ entries # <<>> /\ begin < end
        => /\ intervals # <<>> => intervals[1].start = begin
           /\ \A i \in 1..Len(state_changes) : state_changes[i].when >= begin
           /\ \A i \in 1..Len(intervals) : intervals[i].start >= begin

\* ------------------------------------------------------------------- C3

\* C3 as stated: with an empty entry list, or with no entry matching any
\* scanned day, exactly one interval {begin, end, Off} is returned.
C3_Original ==
    Returned /\ EntryInstances = {}
        => intervals = <<Interval(begin, end, Off)>>

\* C3 amended: with an empty entry list, or with no entry matching any
\* scanned day (a window inside one calendar day included), no StateChange
\* and no interval is returned: neither boundary is synthesized.
C3_NoInstanceNoInterval ==
    Returned /\ EntryInstances = {}
        => state_changes = <<>> /\ intervals = <<>>

C3_Witness ==
    /\ Returned /\ begin < end
    /\ entries # <<>>
    /\ \E i \in 1..Len(entries) : entries[i].when = Daily
    /\ date_naive(begin) = date_naive(end)
    /\ EntryInstances = {}
    /\ intervals = <<>>

\* ------------------------------------------------------------------- C4

IsFixture ==
    entries = FixtureEntries /\ begin = FixtureBegin /\ end = FixtureEnd

\* C4 as stated: the fixture yields exactly 11 intervals, the dated
\* 2022-11-30 16:00 On entry makes no interval boundary, and the last
\* interval ends at 2022-11-30T22:00:00.
C4_Original ==
    Returned /\ IsFixture
        => /\ Len(intervals) = 11
           /\ \A i \in 1..Len(intervals) :
                 /\ intervals[i].start # dt(2, hms(16, 0, 0))
                 /\ intervals[i].end # dt(2, hms(16, 0, 0))
           /\ LastInterval.end = dt(2, hms(22, 0, 0))

\* the 12 lines tests::create_intervals expects (config.rs 267-278)
FixtureExpected ==
    << Interval(dt(0, hms(0, 0, 0)), dt(0, hms(13, 0, 0)), Off),
       Interval(dt(0, hms(13, 0, 0)), dt(0, hms(14, 0, 0)), On),
       Interval(dt(0, hms(14, 0, 0)), dt(0, hms(18, 0, 0)), Off),
       Interval(dt(0, hms(18, 0, 0)), dt(0, hms(22, 0, 0)), On),
       Interval(dt(0, hms(22, 0, 0)), dt(1, hms(13, 0, 0)), Off),
       Interval(dt(1, hms(13, 0, 0)), dt(1, hms(14, 0, 0)), On),
       Interval(dt(1, hms(14, 0, 0)), dt(1, hms(18, 0, 0)), Off),
       Interval(dt(1, hms(18, 0, 0)), dt(1, hms(22, 0, 0)), On),
       Interval(dt(1, hms(22, 0, 0)), dt(2, hms(13, 0, 0)), Off),
       Interval(dt(2, hms(13, 0, 0)), dt(2, hms(14, 0, 0)), On),
       Interval(dt(2, hms(14, 0, 0)), dt(2, hms(16, 0, 0)), Off),
       Interval(dt(2, hms(16, 0, 0)), dt(2, hms(22, 0, 0)), On) >>

\* C4 amended: the fixture yields exactly the 12 intervals the test expects;
\* the dated 2022-11-30 16:00 On entry starts the last interval (Off 14:00 to
\* 16:00, On 16:00 to 22:00), the Daily 18:00 On of that day makes no
\* boundary, and the last interval ends at 2022-11-30T22:00:00.
C4_FixtureIntervals ==
    Returned /\ IsFixture
        => /\ intervals = FixtureExpected
           /\ Len(intervals) = 12
           /\ LastInterval.start = dt(2, hms(16, 0, 0))
           /\ \A i \in 1..Len(intervals) : intervals[i].start # dt(2, hms(18, 0, 0))
           /\ LastInterval.end = dt(2, hms(22, 0, 0))

C4_Witness ==
    Returned /\ IsFixture /\ Len(intervals) = 12 /\ LastInterval.state = On

\* ------------------------------------------------------------------- C5

\* the instants at which the prescribed state or the returned intervals can
\* change, each with the second before and the second after it
Breakpoints ==
    {InstantOf(p) : p \in EntryInstances}
        \cup {intervals[i].start : i \in 1..Len(intervals)}
        \cup {intervals[i].end : i \in 1..Len(intervals)}
        \cup {begin, end}
CheckInstants == UNION {{t - 1, t, t + 1} : t \in Breakpoints}

\* C5: every instant t with first start <= t < last end lies in an interval,
\* and the state of an interval containing t is the state of the latest
\* entry instance not after t (the first-listed one among those of one
\* instant), Off when there is none.
C5_IntervalStateIsPrescribed ==
    Returned /\ intervals # <<>>
        => \A t \in CheckInstants :
              /\ intervals[1].start <= t /\ t < LastInterval.end
                    => \E i \in 1..Len(intervals) : contains_time(intervals[i], t)
              /\ \A i \in 1..Len(intervals) :
                    contains_time(intervals[i], t)
                        => intervals[i].state = PrescribedState(t)

\* a dated entry that changes the state starts an interval, and two entries
\* of one instant disagree
C5_Witness ==
    /\ Returned
    /\ \E p \in EntryInstances :
          /\ entries[p[1]].when # Daily
          /\ PrescribedState(InstantOf(p)) # PrescribedState(InstantOf(p) - 1)
          /\ \E i \in 2..Len(intervals) : intervals[i].start = InstantOf(p)
    /\ \E p, q \in EntryInstances :
          /\ p[1] < q[1] /\ InstantOf(p) = InstantOf(q)
          /\ entries[p[1]].state # entries[q[1]].state
          /\ \E i \in 1..Len(intervals) : contains_time(intervals[i], InstantOf(p))

\* ------------------------------------------------------------------- C6

\* C6: adjacent returned intervals are contiguous,
\* intervals[i].end = intervals[i+1].start.
C6_Contiguous ==
    Returned
        => \A i \in 1..(Len(intervals) - 1) :
              intervals[i].end = intervals[i + 1].start

C6_Witness == Returned /\ Len(intervals) >= 3

\* ------------------------------------------------------------------- C7

\* C7: no two consecutive returned StateChanges and no two consecutive
\* intervals share a state, and an entry instance that does not change the
\* prescribed state starts no interval behind the first.
C7_AdjacentDistinct ==
    /\ pc \in {"returned", "done"}
          => \A i \in 1..(Len(state_changes) - 1) :
                state_changes[i].state # state_changes[i + 1].state
    /\ Returned
          => /\ \A i \in 1..(Len(intervals) - 1) :
                   intervals[i].state # intervals[i + 1].state
             /\ \A p \in EntryInstances :
                   PrescribedState(InstantOf(p)) = PrescribedState(InstantOf(p) - 1)
                       => \A i \in 2..Len(intervals) : intervals[i].start # InstantOf(p)

\* an instance inside the returned span repeats the active state
C7_Witness ==
    /\ Returned /\ Len(intervals) >= 2
    /\ \E p \in EntryInstances :
          /\ intervals[1].start < InstantOf(p) /\ InstantOf(p) < LastInterval.end
          /\ PrescribedState(InstantOf(p)) = PrescribedState(InstantOf(p) - 1)
          /\ \A i \in 1..Len(state_changes) : state_changes[i].when # InstantOf(p)

\* ------------------------------------------------------------------- C8

\* C8: behind sort and dedup every instant of an entry instance has exactly
\* one candidate, and it carries the state of the first-listed entry that
\* resolves to that instant, whatever the When variants.
C8_FirstListedWins ==
    pc = "deduped"
        => /\ {state_changes[i].when : i \in 1..Len(state_changes)}
                 = {InstantOf(p) : p \in EntryInstances}
           /\ \A i, j \in 1..Len(state_changes) :
                 i # j => state_changes[i].when # state_changes[j].when
           /\ \A i \in 1..Len(state_changes) :
                 \A p \in EntryInstances :
                    /\ InstantOf(p) = state_changes[i].when
                    /\ \A q \in EntryInstances :
                          InstantOf(q) = InstantOf(p) => p[1] <= q[1]
                    => state_changes[i].state = entries[p[1]].state

\* a Daily and a dated entry of one instant and of different states
C8_Witness ==
    /\ pc = "deduped"
    /\ \E p, q \in EntryInstances :
          /\ p[1] < q[1] /\ InstantOf(p) = InstantOf(q)
          /\ entries[p[1]].when = Daily /\ entries[q[1]].when # Daily
          /\ entries[p[1]].state # entries[q[1]].state
          /\ \E i \in 1..Len(state_changes) :
                /\ state_changes[i].when = InstantOf(p)
                /\ state_changes[i].state = entries[p[1]].state

\* ------------------------------------------------------------------- C9

\* C9: behind boundary synthesis the StateChanges are strictly increasing in
\* time, so every returned interval has start < end.
C9_StartBeforeEnd ==
    /\ pc \in {"bounded", "returned", "done"}
          => \A i \in 1..(Len(state_changes) - 1) :
                state_changes[i].when < state_changes[i + 1].when
    /\ Returned
          => \A i \in 1..Len(intervals) : intervals[i].start < intervals[i].end

\* both boundaries synthesized: no entry instance lies at begin
C9_Witness ==
    /\ Returned /\ Len(intervals) >= 2
    /\ intervals[1].start = begin
    /\ LastInterval.end = end
    /\ \A p \in EntryInstances : InstantOf(p) # begin

\* ------------------------------------------------------------------ C10

\* C10: entries are expanded only on the days begin.date <= d < end.date:
\* the candidates lie on those days, and the only StateChange ever held on
\* the end date or later is the synthesized {end, Off}.
C10_EndDateNotScanned ==
    /\ pc = "expanded"
          => \A i \in 1..Len(state_changes) :
                /\ date_naive(begin) <= date_naive(state_changes[i].when)
                /\ date_naive(state_changes[i].when) < date_naive(end)
    /\ \A i \in 1..Len(state_changes) :
          date_naive(state_changes[i].when) >= date_naive(end)
              => i = Len(state_changes) /\ state_changes[i] = StateChange(end, Off)

\* end falls mid-day and an On entry of the end date lies before it
C10_Witness ==
    /\ pc = "expanded" /\ begin < end
    /\ state_changes # <<>>
    /\ \E i \in 1..Len(entries) :
          /\ entries[i].when \in {Daily, Date(date_naive(end))}
          /\ entries[i].state = On
          /\ dt(date_naive(end), entries[i].time) < end

\* ======================================================================
\* The timer (timer.rs): one background thread owning TimerState, a control
\* channel flume::bounded(1) into it and a rendezvous tick channel
\* flume::bounded(0) out of it.
\* ======================================================================

\* --------------------------------------------------------- timer bounds

\* last instant of the clock
MaxTime == 4
\* add_time / replace_times calls of one run
MaxCalls == 2
\* the poll interval of the runs
PollInterval == 2
\* wake times the control messages draw from
WakeValues == {1, 3}
\* the clones of the tick receiver that Timer::timer_rx handed out
Receivers == {"a", "b"}

\* flume::bounded(1): the control channel buffers one message
ConfigCapacity == 1

WakeLists == UNION {[1..n -> WakeValues] : n \in 0..2}

\* ----------------------------------------------------------- TimerState

\* Vec::sort on instants: insertion in ascending order
RECURSIVE InsertTime(_, _)
InsertTime(sorted, t) ==
    IF sorted = <<>> THEN <<t>>
    ELSE IF Head(sorted) <= t
           THEN <<Head(sorted)>> \o InsertTime(Tail(sorted), t)
           ELSE <<t>> \o sorted

RECURSIVE SortTimes(_)
SortTimes(ts) ==
    IF ts = <<>> THEN <<>>
    ELSE InsertTime(SortTimes(Tail(ts)), Head(ts))

\* mutation: `*t >= now`, a wake time equal to now survives
update_times_keepNow(ts, n) ==
    SortTimes(SelectSeq(ts, LAMBDA t : t >= n))

\* mutation: the sort left out
update_times_unsorted(ts, n) ==
    SelectSeq(ts, LAMBDA t : t > n)

\* TimerState::update_times: retain(|t| *t > now), then sort
update_times(ts, n) ==
    SortTimes(SelectSeq(ts, LAMBDA t : t > n))

Min(a, b) == IF a <= b THEN a ELSE b

\* mutation: the poll interval always, the wake times ignored
wait_timeout_pollOnly(ts, poll, n) == poll

\* lines 78-82: regular_update.min(first - now), regular_update without a first
wait_timeout(ts, poll, n) ==
    IF ts = <<>> THEN poll ELSE Min(poll, ts[1] - n)

\* mutation: Add treated as Replace, the installed wake times lost
process_config_addReplaces(ts, msg) == msg.items

\* mutation: Replace extends the installed wake times
process_config_replaceExtends(ts, msg) == ts \o msg.items

\* lines 91-98: Add pushes, Replace assigns
process_config(ts, msg) ==
    IF msg.kind = "add" THEN Append(ts, msg.items[1]) ELSE msg.items

\* --------------------------------------------------------- the channels

\* the timer thread has left its loop: config_rx and timer_tx are dropped
TimerGone == tpc \in {"exited_config_closed", "exited_tick_closed", "panicked"}

\* the Timer, and with it config_tx and its own timer_rx, is dropped
TimerDropped == opc = "dropped"

\* a clone of the tick receiver that is not dropped
Alive(r) == rx[r] \in {"idle", "receiving"}

\* every receiver of the tick channel is dropped
NoReceivers == TimerDropped /\ \A r \in Receivers : ~Alive(r)

\* mutation: the send error unwrapped instead of discarded
after_send_error_unwrap == "panicked"

\* `let _ = self.config_tx.send(..)`: the error of a closed channel is discarded
after_send_error == "idle"

\* mutation: a broadcast, every waiting receiver takes the tick
tick_takers_all(r) == {q \in Receivers : rx[q] = "receiving"}

\* one channel shared by all clones: one waiting receiver takes the tick
tick_takers(r) == {r}

\* --------------------------------------------------------------- owner

InitTimerCommon ==
    /\ NoConfig
    /\ NoOthers
    /\ now = 0
    /\ times = <<>>
    /\ tpc = "update"
    /\ deadline = 0
    /\ config_q = <<>>
    /\ ticks = 0 /\ delivered = 0
    /\ quiet_since = -1

\* Timer::with_regular_update has returned and timer_rx has handed out the clones
InitTimer ==
    /\ InitTimerCommon
    /\ regular_update = PollInterval
    /\ opc = "idle" /\ omsg = NoMsg /\ calls = 0
    /\ rx = [r \in Receivers |-> "idle"]
    /\ plan = <<>>

\* Timer::replace_times entered: the send begins
CallReplace ==
    /\ opc = "idle" /\ calls < MaxCalls
    /\ \E ts \in WakeLists : omsg' = Replace(ts)
    /\ opc' = "sending"
    /\ calls' = calls + 1
    /\ UNCHANGED <<dvars, xvars, now, regular_update, times, tpc, deadline, config_q,
                   rx, ticks, delivered, quiet_since, plan>>

\* Timer::add_time entered: the send begins
CallAdd ==
    /\ opc = "idle" /\ calls < MaxCalls
    /\ \E t \in WakeValues : omsg' = Add(t)
    /\ opc' = "sending"
    /\ calls' = calls + 1
    /\ UNCHANGED <<dvars, xvars, now, regular_update, times, tpc, deadline, config_q,
                   rx, ticks, delivered, quiet_since, plan>>

\* Sender::send returns Ok: the buffer had room
SendOk ==
    /\ opc = "sending" /\ ~TimerGone
    /\ Len(config_q) < ConfigCapacity
    /\ config_q' = Append(config_q, omsg)
    /\ opc' = "idle" /\ omsg' = NoMsg
    /\ UNCHANGED <<dvars, xvars, now, regular_update, times, tpc, deadline, calls,
                   rx, ticks, delivered, quiet_since, plan>>

\* Sender::send returns Err: the receiver is gone
SendErr ==
    /\ opc = "sending" /\ TimerGone
    /\ opc' = after_send_error /\ omsg' = NoMsg
    /\ UNCHANGED <<dvars, xvars, now, regular_update, times, tpc, deadline, config_q,
                   calls, rx, ticks, delivered, quiet_since, plan>>

\* the Timer is dropped: config_tx and Timer.timer_rx go
DropTimer ==
    /\ opc = "idle"
    /\ opc' = "dropped"
    /\ UNCHANGED <<dvars, xvars, now, regular_update, times, tpc, deadline, config_q,
                   omsg, calls, rx, ticks, delivered, quiet_since, plan>>

\* ----------------------------------------------------------- receivers

\* Receiver::recv entered
StartRecv(r) ==
    /\ rx[r] = "idle" /\ ~TimerGone
    /\ rx' = [rx EXCEPT ![r] = "receiving"]
    /\ UNCHANGED <<dvars, xvars, now, regular_update, times, tpc, deadline, config_q,
                   opc, omsg, calls, ticks, delivered, quiet_since, plan>>

\* Receiver::recv returns Err: the timer thread is gone
RecvClosed(r) ==
    /\ rx[r] = "receiving" /\ TimerGone
    /\ rx' = [rx EXCEPT ![r] = "idle"]
    /\ UNCHANGED <<dvars, xvars, now, regular_update, times, tpc, deadline, config_q,
                   opc, omsg, calls, ticks, delivered, quiet_since, plan>>

\* a clone is dropped
DropRx(r) ==
    /\ rx[r] = "idle"
    /\ rx' = [rx EXCEPT ![r] = "dropped"]
    /\ UNCHANGED <<dvars, xvars, now, regular_update, times, tpc, deadline, config_q,
                   opc, omsg, calls, ticks, delivered, quiet_since, plan>>

\* ---------------------------------------------------- the timer thread

\* line 76: self.update_times()
UpdateTimes ==
    /\ tpc = "update"
    /\ times' = update_times(times, now)
    /\ tpc' = "compute"
    /\ UNCHANGED <<dvars, xvars, now, regular_update, deadline, config_q, opc, omsg,
                   calls, rx, ticks, delivered, quiet_since, plan>>

\* lines 78-90: the timeout from a second clock read; to_std().unwrap()
\* panics on a negative one
ComputeWait ==
    /\ tpc = "compute"
    /\ LET w == wait_timeout(times, regular_update, now)
       IN  IF w < 0
             THEN tpc' = "panicked" /\ UNCHANGED deadline
             ELSE tpc' = "recv" /\ deadline' = now + w
    /\ UNCHANGED <<dvars, xvars, now, regular_update, times, config_q, opc, omsg,
                   calls, rx, ticks, delivered, quiet_since, plan>>

\* lines 91-98: recv_timeout returns a message
RecvMsg ==
    /\ tpc = "recv" /\ config_q # <<>>
    /\ LET msg == Head(config_q)
       IN  /\ times' = process_config(times, msg)
           /\ quiet_since' =
                 IF msg.kind = "replace" /\ msg.items # <<>>
                       /\ \A i \in 1..Len(msg.items) : msg.items[i] <= now
                   THEN now ELSE -1
    /\ config_q' = Tail(config_q)
    /\ tpc' = "update"
    /\ UNCHANGED <<dvars, xvars, now, regular_update, deadline, opc, omsg, calls,
                   rx, ticks, delivered, plan>>

\* line 99: recv_timeout returns Timeout
RecvTimeout ==
    /\ tpc = "recv" /\ config_q = <<>>
    /\ ~TimerDropped
    /\ now >= deadline
    /\ tpc' = "send"
    /\ UNCHANGED <<dvars, xvars, now, regular_update, times, deadline, config_q, opc,
                   omsg, calls, rx, ticks, delivered, quiet_since, plan>>

\* lines 105-108: recv_timeout returns Disconnected
RecvDisconnected ==
    /\ tpc = "recv" /\ config_q = <<>>
    /\ TimerDropped
    /\ tpc' = "exited_config_closed"
    /\ UNCHANGED <<dvars, xvars, now, regular_update, times, deadline, config_q, opc,
                   omsg, calls, rx, ticks, delivered, quiet_since, plan>>

\* line 100, Ok: timer_tx.send(()) meets a receiver inside recv
HandOver(r) ==
    /\ tpc = "send" /\ rx[r] = "receiving"
    /\ LET takers == tick_takers(r)
       IN  /\ rx' = [q \in Receivers |-> IF q \in takers THEN "idle" ELSE rx[q]]
           /\ delivered' = delivered + Cardinality(takers)
    /\ ticks' = ticks + 1
    /\ quiet_since' = -1
    /\ tpc' = "update"
    /\ UNCHANGED <<dvars, xvars, now, regular_update, times, deadline, config_q, opc,
                   omsg, calls, plan>>

\* mutation: the error of the tick send discarded, the loop goes on
SendFails_ignored ==
    /\ tpc = "send" /\ NoReceivers
    /\ tpc' = "update"
    /\ UNCHANGED <<dvars, xvars, now, regular_update, times, deadline, config_q, opc,
                   omsg, calls, rx, ticks, delivered, quiet_since, plan>>

\* lines 100-103, Err: no receiver is left
SendFails ==
    /\ tpc = "send" /\ NoReceivers
    /\ tpc' = "exited_tick_closed"
    /\ UNCHANGED <<dvars, xvars, now, regular_update, times, deadline, config_q, opc,
                   omsg, calls, rx, ticks, delivered, quiet_since, plan>>

\* the clock
Advance ==
    /\ tpc # "none" /\ now < MaxTime
    /\ now' = now + 1
    /\ UNCHANGED <<dvars, xvars, regular_update, times, tpc, deadline, config_q, opc,
                   omsg, calls, rx, ticks, delivered, quiet_since, plan>>

TimerStep ==
    \/ UpdateTimes \/ ComputeWait \/ RecvMsg \/ RecvTimeout \/ RecvDisconnected
    \/ SendFails
    \/ \E r \in Receivers : HandOver(r)

NextTimer ==
    \/ CallReplace \/ CallAdd \/ SendOk \/ SendErr \/ DropTimer
    \/ \E r \in Receivers : StartRecv(r) \/ RecvClosed(r) \/ DropRx(r)
    \/ TimerStep
    \/ Advance

SpecTimer == InitTimer /\ [][NextTimer]_vars

\* ----------------------------------------- tests::timer_scheduling_and_wait

\* the scenario of the test: the Timer is created, replace_times(plan) is
\* called at once, and one consumer is inside recv whenever a tick is due
TestPlans == UNION {[1..n -> 0..MaxTime] : n \in 0..2}

InitTimerTest ==
    /\ InitTimerCommon
    /\ regular_update \in {PollInterval, PollInterval + 1}
    /\ plan \in TestPlans
    /\ opc = "sending" /\ omsg = Replace(plan) /\ calls = MaxCalls
    /\ rx = [r \in Receivers |-> IF r = "a" THEN "receiving" ELSE "dropped"]

\* no thread has a step to take: the timer is inside recv_timeout before its
\* deadline and the consumer is inside recv
Quiescent ==
    /\ opc = "idle"
    /\ \A r \in Receivers : rx[r] # "idle"
    /\ tpc = "recv" /\ config_q = <<>> /\ now < deadline

\* the clock of a run whose threads take no time
AdvanceQuiescent == Quiescent /\ Advance

NextTimerTest ==
    \/ SendOk
    \/ \E r \in Receivers : StartRecv(r)
    \/ UpdateTimes \/ ComputeWait \/ RecvMsg \/ RecvTimeout
    \/ \E r \in Receivers : HandOver(r)
    \/ AdvanceQuiescent

SpecTimerTest == InitTimerTest /\ [][NextTimerTest]_vars

\* ------------------------------------------------------------------ C11

\* the earliest of the wake times behind n and of n + poll
EarliestWake(ts, poll, n) ==
    LET cand == {ts[i] : i \in 1..Len(ts)} \cap {t \in 0..(n + poll) : t > n}
    IN  IF cand = {} THEN n + poll
        ELSE CHOOSE t \in cand : \A u \in cand : t <= u

TickEmitted == ticks' = ticks + 1

\* the plan holds two wake times t1 < t2 behind the start, poll > t2 - t1
TwoFuturePlan(t1, t2) ==
    /\ Len(plan) = 2 /\ {plan[1], plan[2]} = {t1, t2}
    /\ 0 < t1 /\ t1 < t2 /\ regular_update > t2 - t1

\* C11 as stated: in the test scenario every wait gets the timeout to
\* min(earliest future wake time, wait start + poll), every tick is emitted
\* when that timeout ends, and for future wake times t1 < t2 with
\* poll > t2 - t1 the first tick is emitted at t1, the second at t2 and the
\* third poll after the second.
C11_Original ==
    [][ /\ tpc = "compute" /\ tpc' = "recv"
            => deadline' = EarliestWake(times, regular_update, now)
        /\ TickEmitted => now = deadline
        /\ \A t1, t2 \in 1..MaxTime :
              TwoFuturePlan(t1, t2) /\ TickEmitted
                  => /\ ticks' = 1 => now = t1
                     /\ ticks' = 2 => now = t2
                     /\ ticks' = 3 => now = t2 + regular_update
      ]_vars

\* C11 amended: as stated, for future wake times t1 < t2 with
\* poll > t2 - t1 of which t1 is no later than poll after the Replace is
\* processed; a later t1 is preceded by a poll tick.
C11_TickAtEarliestWake ==
    [][ /\ tpc = "compute" /\ tpc' = "recv"
            => deadline' = EarliestWake(times, regular_update, now)
        /\ TickEmitted => now = deadline
        /\ \A t1, t2 \in 1..MaxTime :
              TwoFuturePlan(t1, t2) /\ t1 <= regular_update /\ TickEmitted
                  => /\ ticks' = 1 => now = t1
                     /\ ticks' = 2 => now = t2
                     /\ ticks' = 3 => now = t2 + regular_update
      ]_vars

\* the third tick of a two-time plan, poll after the second
C11_Witness ==
    /\ Len(plan) = 2 /\ 0 < plan[1] /\ plan[1] < plan[2]
    /\ regular_update > plan[2] - plan[1] /\ plan[1] <= regular_update
    /\ ticks = 3 /\ now = plan[2] + regular_update
    /\ tpc = "update"

\* ------------------------------------------------------------------ C12

\* number of occurrences of v in ts
Count(ts, v) == Cardinality({i \in 1..Len(ts) : ts[i] = v})

Ascending(ts) == \A i \in 1..(Len(ts) - 1) : ts[i] <= ts[i + 1]

UpdateTimesStep == tpc = "update" /\ tpc' = "compute"

\* C12: behind update_times at now, times holds exactly the previous entries
\* greater than now, each as often as before, in ascending order.
C12_PrunedAndSorted ==
    [][ UpdateTimesStep
            => /\ Ascending(times')
               /\ \A v \in 0..MaxTime :
                     Count(times', v) = IF v > now THEN Count(times, v) ELSE 0
      ]_vars

\* update_times is about to run on a past and a later time, out of order
C12_Witness ==
    /\ tpc = "update"
    /\ Len(times) >= 2
    /\ times[1] > times[2]
    /\ times[2] <= now /\ now < times[1]

\* ------------------------------------------------------------------ C13

\* C13: behind a Replace of past wake times only, with no message after it,
\* the next tick is emitted no earlier than the poll interval after the
\* Replace was processed.
C13_PastTimesNeverShorten ==
    [][ TickEmitted /\ quiet_since # -1
            => now >= quiet_since + regular_update
      ]_vars

\* the tick behind such a Replace is being handed over
C13_Witness ==
    /\ quiet_since > 0
    /\ tpc = "send"
    /\ \E r \in Receivers : rx[r] = "receiving"
    /\ now >= quiet_since + regular_update

\* ------------------------------------------------------------------ C14

\* C14 as stated: a call of replace_times or add_time never waits for the
\* timer thread: whenever the owner is inside send, the send can return.
C14_CallerNeverBlocks ==
    opc = "sending" => TimerGone \/ Len(config_q) < ConfigCapacity

\* ------------------------------------------------------------------ C15

\* C15: with the timer loop gone, a call of replace_times or add_time can
\* return at once, returns to the idle owner without a panic, and changes
\* nothing else.
C15_SendAfterExitIsNoOp ==
    [][ TimerGone /\ opc = "sending"
            => /\ ENABLED SendErr
               /\ opc' # opc
                     => /\ opc' = "idle"
                        /\ UNCHANGED <<times, tpc, deadline, config_q, rx,
                                       ticks, delivered, now, regular_update>>
      ]_vars

\* a call made behind the exit of the loop
C15_Witness ==
    /\ TimerGone /\ opc = "sending" /\ omsg.kind \in {"add", "replace"}

\* ------------------------------------------------------------------ C16

ProcessStep(kind) ==
    /\ tpc = "recv" /\ tpc' = "update"
    /\ config_q # <<>> /\ Head(config_q).kind = kind

\* C16: processing Replace(ts) makes times exactly ts and emits no tick, and
\* a wait shorter than the poll interval ends at a wake time of times.
C16_ReplaceInstallsExactly ==
    [][ /\ ProcessStep("replace")
            => /\ times' = Head(config_q).items
               /\ ticks' = ticks /\ delivered' = delivered
        /\ tpc = "compute" /\ tpc' = "recv" /\ deadline' # now + regular_update
            => \E i \in 1..Len(times) : deadline' = times[i]
      ]_vars

\* a Replace is about to discard installed wake times
C16_Witness ==
    /\ tpc = "recv" /\ config_q # <<>>
    /\ Head(config_q).kind = "replace"
    /\ times # <<>>
    /\ \E i \in 1..Len(times) :
          /\ times[i] > now
          /\ \A j \in 1..Len(Head(config_q).items) : Head(config_q).items[j] # times[i]

\* ------------------------------------------------------------------ C17

\* C17: processing Add(t) appends t to times, changes no other wake time and
\* emits no tick, and update_times keeps every wake time still in the future.
C17_AddAppends ==
    [][ /\ ProcessStep("add")
            => /\ times' = Append(times, Head(config_q).items[1])
               /\ ticks' = ticks /\ delivered' = delivered
        /\ UpdateTimesStep
            => \A i \in 1..Len(times) :
                  times[i] > now => \E j \in 1..Len(times') : times'[j] = times[i]
      ]_vars

\* an Add is about to join a wake time still in the future
C17_Witness ==
    /\ tpc = "recv" /\ config_q # <<>>
    /\ Head(config_q).kind = "add"
    /\ \E i \in 1..Len(times) :
          times[i] > now /\ times[i] # Head(config_q).items[1]

\* ------------------------------------------------------------------ C18

\* C18 as stated, its safety half: once the Timer and with it the last
\* control sender is dropped, no tick is emitted any more.
C18_NoTickAfterDrop ==
    [][ TimerDropped => ticks' = ticks ]_vars

\* ------------------------------------------------------------------ C19

\* C19: with no tick receiver left, the send of a timed-out wait can only
\* fail and end the loop; no tick is handed over and no further wait times
\* out.
C19_ExitWithoutReceivers ==
    [][ NoReceivers
            => /\ tpc = "send" => ENABLED SendFails
               /\ tpc = "send" => tpc' \in {"send", "exited_tick_closed"}
               /\ ticks' = ticks
               /\ ~(tpc = "recv" /\ tpc' = "send")
      ]_vars

\* the loop has exited on the failed send
C19_Witness == tpc = "exited_tick_closed" /\ NoReceivers

\* ------------------------------------------------------------------ C20

\* C20: every tick handed over is taken by exactly one of the receivers that
\* share the channel, and while the timer is inside send and a receiver is
\* inside recv the tick can be handed over.
C20_OneTakerPerTick ==
    /\ delivered = ticks
    /\ tpc = "send" /\ (\E r \in Receivers : rx[r] = "receiving")
          => ENABLED (\E r \in Receivers : HandOver(r))

\* a tick was taken and both clones wait for the next one being handed over
C20_Witness ==
    /\ ticks >= 1
    /\ tpc = "send"
    /\ \A r \in Receivers : rx[r] = "receiving"

\* ======================================================================
\* The schedule worker of src/schedule.rs with the callbacks of
\* src/bin/fritz_dect_controller.rs
\* ======================================================================

\* last minute the worker's clock reaches
MaxClock == 7
\* most notifications the enumerated runs let the file-change channel hold
MaxNotes == 2

\* default(Duration::from_secs(60 * 5)), in minutes
CheckTimeout == 5

\* enum Action { TurnOn, TurnOff, Unknown }
TurnOn == "TurnOn"
TurnOff == "TurnOff"
Unknown == "Unknown"

\* one element of Schedule.actions: (DateTime<Local>, Action)
ScheduledAction(t, a) == [time |-> t, action |-> a]

\* fs::read_to_string fails
Unreadable == "unreadable"

\* the well-formed lines of the schedule files the runs write, in file order
FileContents ==
    { <<>>,
      <<ScheduledAction(1, TurnOn)>>,
      <<ScheduledAction(7, TurnOff), ScheduledAction(1, TurnOn)>>,
      <<ScheduledAction(1, TurnOff), ScheduledAction(7, Unknown)>> }

\* sort_by on the time, stable
RECURSIVE InsertAction(_, _)
InsertAction(sorted, a) ==
    IF sorted = <<>> THEN <<a>>
    ELSE IF a.time < Head(sorted).time THEN <<a>> \o sorted
    ELSE <<Head(sorted)>> \o InsertAction(Tail(sorted), a)

RECURSIVE SortActions(_)
SortActions(as) ==
    IF as = <<>> THEN <<>>
    ELSE InsertAction(SortActions(SubSeq(as, 1, Len(as) - 1)), as[Len(as)])

\* Schedule::from_file of a readable file
from_file(f) == SortActions(f)

\* Schedule::next_action: index of the first action behind `at`, 0 for None
next_action(sched, at) ==
    LET later == {i \in 1..Len(sched) : sched[i].time > at}
    IN  IF later = {} THEN 0 ELSE CHOOSE i \in later : \A j \in later : i <= j

\* Schedule::last_action: index of the last action of the prefix of actions
\* not behind `at`, 0 for None
last_action(sched, at) ==
    LET stop == {i \in 1..Len(sched) : sched[i].time > at}
    IN  IF stop = {} THEN Len(sched)
        ELSE (CHOOSE i \in stop : \A j \in stop : i <= j) - 1

\* the file-change channel is disconnected and drained
FileChannelClosed == watcher = "exited" /\ file_q = 0

WorkerGone == wpc = "panicked"

\* the worker thread has read the schedule for the first time (lines 140-142)
InitWorker ==
    /\ NoConfig /\ NoTimer /\ NoUpdater /\ NoFritzctrl /\ NoDuration /\ NoClient
    /\ wnow = 0
    /\ file \in FileContents
    /\ schedule = from_file(file)
    /\ schedule_changed = FALSE
    /\ wpc = "top"
    /\ wnext = <<>> /\ wdeadline = 0
    /\ file_q = 0 /\ watcher = "running"
    /\ dev_on \in BOOLEAN
    /\ wevent = "started"

\* lines 145-148: the schedule is read again once schedule_changed is set
Reload ==
    /\ wpc = "top"
    /\ IF ~schedule_changed
         THEN wpc' = "next" /\ wevent' = "kept" /\ UNCHANGED schedule
         ELSE IF file = Unreadable
           THEN wpc' = "panicked" /\ wevent' = "reload_failed" /\ UNCHANGED schedule
           ELSE wpc' = "next" /\ wevent' = "reloaded" /\ schedule' = from_file(file)
    /\ UNCHANGED <<dvars, tvars, uvars, svars, pvars, cvars, wnow, schedule_changed, wnext, wdeadline,
                   file, file_q, watcher, dev_on>>

\* lines 150-165: the next action, and the timer and select for it
FindNext ==
    /\ wpc = "next"
    /\ LET n == next_action(schedule, wnow)
       IN  IF n = 0
             THEN wpc' = "wait_empty" /\ wnext' = <<>> /\ UNCHANGED wdeadline
             ELSE /\ wpc' = "select"
                  /\ wnext' = <<schedule[n]>>
                  /\ wdeadline' = wnow + CheckTimeout
    /\ wevent' = "none"
    /\ UNCHANGED <<dvars, tvars, uvars, svars, pvars, cvars, wnow, schedule, schedule_changed, file,
                   file_q, watcher, dev_on>>

\* line 156: watcher.rx_file_change.recv().unwrap() of the empty schedule
WaitEmpty ==
    /\ wpc = "wait_empty"
    /\ \/ /\ file_q > 0
          /\ file_q' = file_q - 1
          /\ wpc' = "top" /\ wevent' = "file_changed"
       \/ /\ FileChannelClosed
          /\ wpc' = "panicked" /\ wevent' = "disconnected"
          /\ UNCHANGED file_q
    /\ UNCHANGED <<dvars, tvars, uvars, svars, pvars, cvars, wnow, schedule, schedule_changed, wnext,
                   wdeadline, file, watcher, dev_on>>

\* lines 167-169 with fritz_dect_controller.rs 86-102: the timer fired and
\* on_action switches the device; an error of the call is printed
SelectTick ==
    /\ wpc = "select" /\ wnow >= wnext[1].time
    /\ LET action == wnext[1].action
       IN  IF action = Unknown
             THEN wevent' = "action_none" /\ UNCHANGED dev_on
             ELSE \E ok \in BOOLEAN :
                    IF ok THEN /\ dev_on' = (action = TurnOn)
                               /\ wevent' = "action_ok"
                          ELSE /\ wevent' = "action_failed"
                               /\ UNCHANGED dev_on
    /\ wpc' = "top"
    /\ UNCHANGED <<dvars, tvars, uvars, svars, pvars, cvars, wnow, schedule, schedule_changed, wnext,
                   wdeadline, file, file_q, watcher>>

\* lines 170-172: recv(watcher.rx_file_change) -> _ is ready with a
\* notification or with the error of the disconnected channel
SelectFileChange ==
    /\ wpc = "select"
    /\ \/ /\ file_q > 0
          /\ file_q' = file_q - 1
          /\ wevent' = "file_changed"
       \/ /\ FileChannelClosed
          /\ wevent' = "disconnected"
          /\ UNCHANGED file_q
    /\ schedule_changed' = TRUE
    /\ wpc' = "top"
    /\ UNCHANGED <<dvars, tvars, uvars, svars, pvars, cvars, wnow, schedule, wnext, wdeadline, file,
                   watcher, dev_on>>

\* lines 173-177 with fritz_dect_controller.rs 103-114: no receive got ready
\* for five minutes and check_action compares the device with the last action
SelectTimeout ==
    /\ wpc = "select" /\ wnow >= wdeadline
    /\ wnow < wnext[1].time /\ file_q = 0 /\ watcher = "running"
    /\ LET l == last_action(schedule, wnow)
       IN  IF l = 0
             THEN wpc' = "top" /\ wevent' = "check_none" /\ UNCHANGED dev_on
             ELSE \E read_ok \in BOOLEAN :
                    LET on == IF read_ok THEN dev_on ELSE FALSE
                        should_be_on == schedule[l].action = TurnOn
                    IN  IF on = should_be_on
                          THEN /\ wpc' = "top" /\ wevent' = "check_ok"
                               /\ UNCHANGED dev_on
                          ELSE \E ok \in BOOLEAN :
                                 IF ok THEN /\ dev_on' = ~dev_on
                                            /\ wpc' = "top"
                                            /\ wevent' = "check_toggled"
                                       ELSE /\ wpc' = "panicked"
                                            /\ wevent' = "toggle_failed"
                                            /\ UNCHANGED dev_on
    /\ UNCHANGED <<dvars, tvars, uvars, svars, pvars, cvars, wnow, schedule, schedule_changed, wnext,
                   wdeadline, file, file_q, watcher>>

\* the file is written; lines 105-108: the watcher thread forwards the event
EnvWrite ==
    /\ wpc # "none" /\ file_q < MaxNotes
    /\ file' \in FileContents
    /\ file_q' = IF watcher = "running" THEN file_q + 1 ELSE file_q
    /\ UNCHANGED <<dvars, tvars, uvars, svars, pvars, cvars, wnow, wpc, schedule, schedule_changed,
                   wnext, wdeadline, watcher, dev_on, wevent>>

\* the file is removed or made unreadable; line 109: no notification
EnvRemove ==
    /\ wpc # "none" /\ file # Unreadable
    /\ file' = Unreadable
    /\ UNCHANGED <<dvars, tvars, uvars, svars, pvars, cvars, wnow, wpc, schedule, schedule_changed,
                   wnext, wdeadline, file_q, watcher, dev_on, wevent>>

\* lines 101-104: rx2.recv() fails and the watcher thread breaks, dropping tx
WatcherExits ==
    /\ watcher = "running"
    /\ watcher' = "exited"
    /\ UNCHANGED <<dvars, tvars, uvars, svars, pvars, cvars, wnow, wpc, schedule, schedule_changed,
                   wnext, wdeadline, file, file_q, dev_on, wevent>>

\* the clock
WAdvance ==
    /\ wpc # "none" /\ wnow < MaxClock
    /\ wnow' = wnow + 1
    /\ UNCHANGED <<dvars, tvars, uvars, svars, pvars, cvars, wpc, schedule, schedule_changed, wnext,
                   wdeadline, file, file_q, watcher, dev_on, wevent>>

NextWorker ==
    \/ Reload \/ FindNext \/ WaitEmpty
    \/ SelectTick \/ SelectFileChange \/ SelectTimeout
    \/ EnvWrite \/ EnvRemove \/ WatcherExits
    \/ WAdvance

SpecWorker == InitWorker /\ [][NextWorker]_vars

\* ------------------------------------------------------------------ C21

\* C21 as stated: at most one signal of each kind is pending: the timer's
\* control channel holds at most one message, no tick is buffered (every tick
\* handed over is taken by a receiver), and the file-change channel holds at
\* most one notification.
C21_OneSignalPending ==
    /\ Len(config_q) <= 1
    /\ ticks = delivered
    /\ file_q <= 1

\* ------------------------------------------------------------------ C22

\* the worker reads the changed schedule file and the read fails
ReloadFails ==
    /\ wpc = "top" /\ schedule_changed /\ file = Unreadable
    /\ wpc' # wpc

\* C22 as stated: a failed reload leaves the loop running on the schedule it
\* had.
C22_FailedReloadKeepsSchedule ==
    [][ ReloadFails => ~WorkerGone' /\ schedule' = schedule ]_vars

\* ------------------------------------------------------------------ C23

\* a device call of this step of the worker failed
DeviceCallFails ==
    /\ wpc = "select" /\ wpc' # wpc
    /\ wevent' \in {"action_failed", "toggle_failed"}

\* C23 as stated: behind a failed device call the loop goes on.
C23_DeviceFailureNotFatal ==
    [][ DeviceCallFails => ~WorkerGone' /\ wpc' = "top" ]_vars

\* ------------------------------------------------------------------ C24

\* the worker's receive on the file-change channel meets the disconnection
MeetsDisconnection ==
    /\ wpc \in {"select", "wait_empty"} /\ wpc' # wpc
    /\ FileChannelClosed
    /\ wevent' = "disconnected"

\* C24 as stated: a receive that meets a disconnected input channel ends the
\* loop; the loop does not go on to another iteration.
C24_DisconnectionIsFatal ==
    [][ MeetsDisconnection => WorkerGone' ]_vars

\* ======================================================================
\* The current interval: run() of fritz-christmas-light-controller/src/main.rs
\* ======================================================================

\* intervals.into_iter().find(|ea| ea.is_current()): is_current reads
\* Local::now() for every interval it is asked about; the intervals before
\* position k meet the reading n0, those from k on the reading n1
FindAt(ivs, n0, n1, k) ==
    LET hits == {i \in 1..Len(ivs) :
                    contains_time(ivs[i], IF i < k THEN n0 ELSE n1)}
    IN  IF hits = {} THEN 0 ELSE CHOOSE i \in hits : \A j \in hits : i <= j

\* main.rs line 125: the scan for the current interval; the clock moves by
\* at most one second while it runs
FindCurrent ==
    /\ pc = "done"
    /\ \E n0 \in CheckInstants : \E n1 \in {n0, n0 + 1} :
       \E k \in 1..(Len(intervals) + 1) :
          LET c == FindAt(intervals, n0, n1, k)
          IN  /\ current' = c
              /\ read_first' = n0
              /\ read_at' = IF c # 0 /\ c < k THEN n0 ELSE n1
    /\ pc' = "found"
    /\ UNCHANGED <<entries, begin, end, state_changes, intervals, tvars, xvars>>

\* main.rs lines 48-52: the window of run starts at midnight of day 0 and is
\* four days long; lines 88-109: its entries, those of the test fixture
RunBegin == dt(0, hms(0, 0, 0))
RunEnd == RunBegin + 4 * SecondsPerDay

\* run() with its own configuration, and with the enumerated entry lists and
\* window ends
InitRun ==
    /\ entries \in EntryLists \cup {FixtureEntries}
    /\ begin = RunBegin
    /\ end \in Instants \cup {RunEnd}
    /\ pc = "start"
    /\ state_changes = <<>>
    /\ intervals = <<>>
    /\ current = 0 /\ read_first = 0 /\ read_at = 0
    /\ NoTimer
    /\ NoOthers

NextRun == Next \/ FindCurrent

SpecRun == InitRun /\ [][NextRun]_vars

\* the tick reaction of the driving loop: set_state(interval.state, device)
\* for the interval found, no device call for None
AppliedState == IF current = 0 THEN "none" ELSE intervals[current].state

\* ------------------------------------------------------------------ C25

\* the intervals that contain the instant t
Containing(t) == {i \in 1..Len(intervals) : contains_time(intervals[i], t)}

\* C25: at most one derived interval contains any instant; the interval found
\* for a tick is the one containing the clock reading it was found at and
\* its state is the state applied; no state is applied only if no interval
\* contains a reading of the scan, and a scan at one instant finds the
\* interval containing it.
C25_OneCurrentInterval ==
    pc \in {"done", "found"} =>
        /\ \A t \in CheckInstants \cup {read_first, read_at} :
              Cardinality(Containing(t)) <= 1
        /\ pc = "found" /\ current # 0
              => /\ Containing(read_at) = {current}
                 /\ \A i \in Containing(read_at) : AppliedState = intervals[i].state
        /\ pc = "found" /\ current = 0
              => /\ AppliedState = "none"
                 /\ Containing(read_first) = {} \/ Containing(read_at) = {}
        /\ pc = "found" /\ read_first = read_at /\ Containing(read_at) # {}
              => current \in Containing(read_at)

\* the scan met the instant at which one interval ends and the next starts
C25_Witness ==
    /\ pc = "found" /\ current >= 2
    /\ read_at = intervals[current].start
    /\ read_at = intervals[current - 1].end
    /\ AppliedState = intervals[current].state

\* ======================================================================
\* RealtFritzUpdater::set_state of
\* fritz-christmas-light-controller/src/fritz_updater.rs
\* ======================================================================

\* most calls of set_state in a run
MaxSetCalls == 2

\* AVMDevice::is_on (fritzapi devices/mod.rs): the switch state of a
\* FritzDect2XX, false for every Other device
is_on(kind, switch) == IF kind = "dect2xx" THEN switch ELSE FALSE

\* lines 36-53: whether set_state decides to toggle
changed(on, desired_state) == on # (desired_state = On)

\* one call of set_state as the log keeps it
CallRecord(desired, before, result, toggles) ==
    [desired |-> desired, before |-> before, result |-> result,
     toggles |-> toggles]

\* a device (or none) of either kind, switched on or off, and no call so far
InitUpdater ==
    /\ NoConfig /\ NoTimer /\ NoWorker /\ NoFritzctrl /\ NoDuration /\ NoClient
    /\ dev_kind \in {"dect2xx", "other", "absent"}
    /\ dev_switch \in BOOLEAN
    /\ upc = "idle"
    /\ ucall = <<>> /\ ulog = <<>>

\* line 22: set_state(desired_state, id) is entered
CallSetState ==
    /\ upc = "idle" /\ Len(ulog) < MaxSetCalls
    /\ \E desired \in State :
          ucall' = [desired |-> desired, before |-> dev_switch, on |-> FALSE]
    /\ upc' = "list"
    /\ UNCHANGED <<dvars, tvars, wvars, svars, pvars, cvars, dev_kind, dev_switch, ulog>>

\* lines 27-34: list_devices fails, finds no device of that id, or finds it
ListDevices ==
    /\ upc = "list"
    /\ \/ /\ ulog' = Append(ulog, CallRecord(ucall.desired, ucall.before, "Err", 0))
          /\ upc' = "idle" /\ ucall' = <<>>
       \/ /\ dev_kind = "absent"
          /\ ulog' = Append(ulog, CallRecord(ucall.desired, ucall.before, "Ok(false)", 0))
          /\ upc' = "idle" /\ ucall' = <<>>
       \/ /\ dev_kind # "absent"
          /\ ucall' = [ucall EXCEPT !.on = is_on(dev_kind, dev_switch)]
          /\ upc' = "decide"
          /\ UNCHANGED ulog
    /\ UNCHANGED <<dvars, tvars, wvars, svars, pvars, cvars, dev_kind, dev_switch>>

\* lines 36-59: nothing to change, or the toggle request, which may fail
DecideAndToggle ==
    /\ upc = "decide"
    /\ IF ~changed(ucall.on, ucall.desired)
         THEN /\ ulog' = Append(ulog, CallRecord(ucall.desired, ucall.before, "Ok(false)", 0))
              /\ UNCHANGED dev_switch
         ELSE \E ok \in BOOLEAN :
                IF ok
                  THEN /\ dev_switch' = ~dev_switch
                       /\ ulog' = Append(ulog, CallRecord(ucall.desired, ucall.before, "Ok(true)", 1))
                  ELSE /\ UNCHANGED dev_switch
                       /\ ulog' = Append(ulog, CallRecord(ucall.desired, ucall.before, "Err", 1))
    /\ upc' = "idle" /\ ucall' = <<>>
    /\ UNCHANGED <<dvars, tvars, wvars, svars, pvars, cvars, dev_kind>>

NextUpdater == CallSetState \/ ListDevices \/ DecideAndToggle

SpecUpdater == InitUpdater /\ [][NextUpdater]_vars

\* ------------------------------------------------------------------ C26

\* the device was in the desired state when the call was made
AlreadyDesired(c) == dev_kind # "absent" /\ c.before = (c.desired = On)

\* C26 as stated, for the calls none of whose requests fails: a call on a
\* device already in the desired state returns Ok(false) without a toggle,
\* Ok(true) is returned only with exactly one toggle issued, and two calls
\* in a row with the same desired state issue at most one toggle.
C26_SetStateIdempotent ==
    /\ \A i \in 1..Len(ulog) :
          ulog[i].result # "Err"
              => /\ AlreadyDesired(ulog[i])
                    => ulog[i].result = "Ok(false)" /\ ulog[i].toggles = 0
                 /\ ulog[i].result = "Ok(true)" => ulog[i].toggles = 1
    /\ \A i \in 1..(Len(ulog) - 1) :
          /\ ulog[i].desired = ulog[i + 1].desired
          /\ ulog[i].result # "Err" /\ ulog[i + 1].result # "Err"
          => ulog[i].toggles + ulog[i + 1].toggles <= 1

\* ======================================================================
\* Schedule::start of fritzctrl/src/schedule/schedule.rs
\* ======================================================================

\* most actions of an enumerated schedule
MaxActions == 2
\* last instant the clock of the schedule reaches
MaxSchedTime == 3

\* times and device ids of the enumerated actions
SchedTimes == {1, 2}
DeviceIds == {"a", "b"}

\* Action::TurnOn / TurnOff { time, id }
DeviceAction(t, id, kind) == [time |-> t, id |-> id, action |-> kind]

\* the parsed lines of stdin, in input order
SchedInputs ==
    UNION {[1..n -> {DeviceAction(t, id, TurnOn) : t \in SchedTimes, id \in DeviceIds}] :
              n \in 0..MaxActions}

\* mutation: the sort left out, the actions stay in input order
sort_by_key_time_unsorted(as) == as

\* line 32: schedule.actions.sort_by_key(|ea| ea.time()), stable
sort_by_key_time(as) == SortActions(as)

\* fritzctrl's Schedule::next_action: index of the first action with
\* time > at, 0 for None
fritzctrl_next_action(sched, at) ==
    LET later == {i \in 1..Len(sched) : sched[i].time > at}
    IN  IF later = {} THEN 0 ELSE CHOOSE i \in later : \A j \in later : i <= j

\* fritzctrl's Schedule::last_action: index of the last action of the prefix
\* of actions with time <= at, 0 for None
fritzctrl_last_action(sched, at) ==
    LET stop == {i \in 1..Len(sched) : sched[i].time > at}
    IN  IF stop = {} THEN Len(sched)
        ELSE (CHOOSE i \in stop : \A j \in stop : i <= j) - 1

\* from_string has parsed and sorted the input and start is called
InitFritzctrl ==
    /\ NoConfig /\ NoTimer /\ NoWorker /\ NoUpdater /\ NoDuration /\ NoClient
    /\ \E input \in SchedInputs : s_actions = sort_by_key_time(input)
    /\ s_now \in {0, 1}
    /\ s_start = s_now
    /\ spc = "loop"
    /\ s_next = 0 /\ s_ran = <<>>

\* lines 59-77: the next action behind now, or the return of Ok(())
SchedLoop ==
    /\ spc = "loop"
    /\ LET n == fritzctrl_next_action(s_actions, s_now)
       IN  /\ s_next' = n
           /\ spc' = IF n = 0 THEN "returned_ok" ELSE "sleep"
    /\ UNCHANGED <<dvars, tvars, wvars, uvars, pvars, cvars, s_actions, s_now, s_start, s_ran>>

\* lines 78-81: the sleep is over and the action is run; its error is printed
SchedRun ==
    /\ spc = "sleep" /\ s_now >= s_actions[s_next].time
    /\ s_ran' = Append(s_ran, s_next)
    /\ spc' = "loop"
    /\ UNCHANGED <<dvars, tvars, wvars, uvars, pvars, cvars, s_actions, s_now, s_start, s_next>>

\* the clock while the thread sleeps; running an action takes no time
SchedAdvance ==
    /\ spc = "sleep" /\ s_now < s_actions[s_next].time
    /\ s_now < MaxSchedTime
    /\ s_now' = s_now + 1
    /\ UNCHANGED <<dvars, tvars, wvars, uvars, pvars, cvars, s_actions, s_start, spc, s_next, s_ran>>

NextFritzctrl == SchedLoop \/ SchedRun \/ SchedAdvance

SpecFritzctrl == InitFritzctrl /\ [][NextFritzctrl]_vars

\* ------------------------------------------------------------------ C27

\* how often the action of index i was run
TimesRun(i) == Cardinality({k \in 1..Len(s_ran) : s_ran[k] = i})

\* C27 as stated: when start returns Ok, every action with a time behind the
\* call of start has been run exactly once, and the actions are run in
\* non-decreasing order of time.
C27_AllActionsRun ==
    /\ spc = "returned_ok"
          => \A i \in 1..Len(s_actions) :
                s_actions[i].time > s_start => TimesRun(i) = 1
    /\ \A i \in 1..Len(s_actions) : TimesRun(i) <= 1
    /\ \A k \in 1..(Len(s_ran) - 1) :
          s_actions[s_ran[k]].time <= s_actions[s_ran[k + 1]].time

\* ======================================================================
\* The duration text format of
\* fritz-christmas-light-controller/src/duration.rs; a text is the sequence
\* of its characters
\* ======================================================================

\* durations of -MaxSeconds .. MaxSeconds whole seconds are formatted
MaxSeconds == 125
\* the parsed texts are made of at most MaxTokens tokens
MaxTokens == 5

Digits == <<"0", "1", "2", "3", "4", "5", "6", "7", "8", "9">>
IsDigit(c) == \E k \in 1..10 : Digits[k] = c
DigitValue(c) == (CHOOSE k \in 1..10 : Digits[k] = c) - 1

Mins == <<"m", "i", "n", "s">>
Secs == <<"s", "e", "c", "s">>

\* i64 division, rounding towards zero
TruncDiv(a, b) == IF a >= 0 THEN a \div b ELSE -((-a) \div b)

\* Display of a non-negative integer
RECURSIVE NatToChars(_)
NatToChars(n) ==
    IF n < 10 THEN <<Digits[n + 1]>>
    ELSE NatToChars(n \div 10) \o <<Digits[(n % 10) + 1]>>

\* Display of an i64
IntToChars(n) == IF n < 0 THEN <<"-">> \o NatToChars(-n) ELSE NatToChars(n)

\* lines 6-14: format!("{minutes}mins {seconds}secs")
duration_pretty(d) ==
    LET minutes == TruncDiv(d, 60)
        seconds == IF minutes > 0 THEN d - minutes * 60 ELSE d
    IN  IntToChars(minutes) \o Mins \o <<" ">> \o IntToChars(seconds) \o Secs

\* str::trim
RECURSIVE TrimStart(_)
TrimStart(cs) ==
    IF cs # <<>> /\ Head(cs) = " " THEN TrimStart(Tail(cs)) ELSE cs

RECURSIVE TrimEnd(_)
TrimEnd(cs) ==
    IF cs # <<>> /\ cs[Len(cs)] = " "
      THEN TrimEnd(SubSeq(cs, 1, Len(cs) - 1)) ELSE cs

Trim(cs) == TrimEnd(TrimStart(cs))

\* position of the first space, 0 if there is none (str::split_once(' '))
FirstSpace(cs) ==
    LET at == {i \in 1..Len(cs) : cs[i] = " "}
    IN  IF at = {} THEN 0 ELSE CHOOSE i \in at : \A j \in at : i <= j

StartsWith(cs, pat) ==
    Len(cs) >= Len(pat) /\ SubSeq(cs, 1, Len(pat)) = pat

\* str::replace(pat, ""): every occurrence met from the left is removed
RECURSIVE RemoveAll(_, _)
RemoveAll(cs, pat) ==
    IF cs = <<>> THEN <<>>
    ELSE IF StartsWith(cs, pat)
      THEN RemoveAll(SubSeq(cs, Len(pat) + 1, Len(cs)), pat)
      ELSE <<Head(cs)>> \o RemoveAll(Tail(cs), pat)

\* value of a sequence of digits
RECURSIVE DigitsValue(_)
DigitsValue(cs) ==
    IF cs = <<>> THEN 0
    ELSE DigitsValue(SubSeq(cs, 1, Len(cs) - 1)) * 10 + DigitValue(cs[Len(cs)])

Ok(v) == [ok |-> TRUE, val |-> v]
Err == [ok |-> FALSE, val |-> 0]

\* str::parse::<i64>: an optional sign and at least one digit, nothing else
ParseInt(cs) ==
    LET signed == cs # <<>> /\ Head(cs) \in {"-", "+"}
        body == IF signed THEN Tail(cs) ELSE cs
    IN  IF body = <<>> \/ \E i \in 1..Len(body) : ~IsDigit(body[i])
          THEN Err
          ELSE Ok(IF signed /\ Head(cs) = "-" THEN -DigitsValue(body)
                  ELSE DigitsValue(body))

\* mutation: a part that does not parse counts as zero
duration_parse_lenient(cs) ==
    LET t == Trim(cs)
        sp == FirstSpace(t)
    IN  IF sp = 0 THEN Err
        ELSE LET a == ParseInt(RemoveAll(SubSeq(t, 1, sp - 1), Mins))
                 b == ParseInt(RemoveAll(SubSeq(t, sp + 1, Len(t)), Secs))
             IN  Ok(a.val * 60 + b.val)

\* lines 16-42
duration_parse(cs) ==
    LET t == Trim(cs)
        sp == FirstSpace(t)
    IN  IF sp = 0 THEN Err
        ELSE LET a == ParseInt(RemoveAll(SubSeq(t, 1, sp - 1), Mins))
                 b == ParseInt(RemoveAll(SubSeq(t, sp + 1, Len(t)), Secs))
             IN  IF ~a.ok THEN Err
                 ELSE IF ~b.ok THEN Err
                 ELSE Ok(a.val * 60 + b.val)

\* the pieces the parsed texts are put together from
Tokens == {<<"1">>, <<"2">>, <<"-">>, <<"+">>, <<" ">>, <<"x">>, Mins, Secs}

RECURSIVE Concat(_)
Concat(ts) == IF ts = <<>> THEN <<>> ELSE Head(ts) \o Concat(Tail(ts))

\* the texts of at most n tokens
TextInputs(n) == {Concat(ts) : ts \in UNION {[1..k -> Tokens] : k \in 0..n}}

\* a duration to be formatted, or a text to be parsed
InitDuration ==
    /\ NoConfig /\ NoTimer /\ NoWorker /\ NoUpdater /\ NoFritzctrl /\ NoClient
    /\ d_out = <<>>
    /\ \/ /\ \E d \in (-MaxSeconds)..MaxSeconds : d_in = <<d>>
          /\ d_text = <<>>
          /\ dpc = "duration"
       \/ /\ d_in = <<>>
          /\ d_text \in TextInputs(MaxTokens)
          /\ dpc = "text"

\* serialize: duration_pretty(d)
Pretty ==
    /\ dpc = "duration"
    /\ d_text' = duration_pretty(d_in[1])
    /\ dpc' = "text"
    /\ UNCHANGED <<dvars, tvars, wvars, uvars, svars, cvars, d_in, d_out>>

\* deserialize: duration_parse(s)
Parse ==
    /\ dpc = "text"
    /\ d_out' = duration_parse(d_text)
    /\ dpc' = "parsed"
    /\ UNCHANGED <<dvars, tvars, wvars, uvars, svars, cvars, d_in, d_text>>

NextDuration == Pretty \/ Parse

SpecDuration == InitDuration /\ [][NextDuration]_vars

\* ------------------------------------------------------------------ C28

\* C28 as stated: duration_parse(duration_pretty(d)) = d for every duration
\* d of whole seconds.
C28_RoundTrip ==
    dpc = "parsed" /\ d_in # <<>> => d_out = Ok(d_in[1])

\* ------------------------------------------------------------------ C29

\* an integer as it is written: an optional sign and at least one digit
IsIntLiteral(cs) ==
    \E k \in 0..1 :
        /\ Len(cs) > k
        /\ k = 1 => cs[1] \in {"-", "+"}
        /\ \A i \in (k + 1)..Len(cs) : IsDigit(cs[i])

\* "<N>mins <M>secs", spaces around it allowed
IsShape(cs) ==
    LET t == Trim(cs)
    IN  \E i \in 1..Len(t) : \E j \in (i + 6)..Len(t) :
            /\ IsIntLiteral(SubSeq(t, 1, i))
            /\ SubSeq(t, i + 1, i + 5) = Mins \o <<" ">>
            /\ IsIntLiteral(SubSeq(t, i + 6, j))
            /\ SubSeq(t, j + 1, Len(t)) = Secs

\* the trimmed text has no space to split at
NoSpace(cs) == \A i \in 1..Len(Trim(cs)) : Trim(cs)[i] # " "

\* what is left of the part before the first space once "mins" is removed
MinutesPart(cs) ==
    RemoveAll(SubSeq(Trim(cs), 1, FirstSpace(Trim(cs)) - 1), Mins)

\* what is left of the part after the first space once "secs" is removed
SecondsPart(cs) ==
    RemoveAll(SubSeq(Trim(cs), FirstSpace(Trim(cs)) + 1, Len(Trim(cs))), Secs)

\* C29 as stated: every input that is not of the shape "<N>mins <M>secs"
\* makes duration_parse return an error.
C29_Original ==
    dpc = "parsed" /\ ~IsShape(d_text) => ~d_out.ok

\* C29, amended: duration_parse returns an error, and no duration at all,
\* for every input that has no space once trimmed, or whose part before the
\* first space is not an integer once "mins" is removed from it, or whose
\* part after the first space is not an integer once "secs" is removed.
C29_MalformedIsError ==
    dpc = "parsed"
      /\ (NoSpace(d_text) \/ ~IsIntLiteral(MinutesPart(d_text))
                          \/ ~IsIntLiteral(SecondsPart(d_text)))
      => d_out = Err

\* a text with numeric minutes and non-numeric seconds has been rejected
C29_Witness ==
    /\ dpc = "parsed"
    /\ ~NoSpace(d_text)
    /\ MinutesPart(d_text) = <<"1">>
    /\ SecondsPart(d_text) = <<"x">>
    /\ d_out = Err

\* ======================================================================
\* Reconfiguration of a running timer (timer.rs): add_time calls at any
\* moment, one consumer that is inside recv whenever a tick is due, threads
\* that take no time
\* ======================================================================

\* Timer::with_regular_update, replace_times(plan) called at once, add_time
\* calls to come
InitTimerReconf ==
    /\ InitTimerCommon
    /\ regular_update = PollInterval
    /\ plan \in TestPlans
    /\ opc = "sending" /\ omsg = Replace(plan) /\ calls = 0
    /\ rx = [r \in Receivers |-> IF r = "a" THEN "receiving" ELSE "dropped"]

NextTimerReconf ==
    \/ CallAdd \/ SendOk
    \/ \E r \in Receivers : StartRecv(r)
    \/ UpdateTimes \/ ComputeWait \/ RecvMsg \/ RecvTimeout
    \/ \E r \in Receivers : HandOver(r)
    \/ AdvanceQuiescent

SpecTimerReconf == InitTimerReconf /\ [][NextTimerReconf]_vars

\* ------------------------------------------------------------------ C30

\* an installed wake time is reached while the timer waits for it
WakeTimeReached == tpc = "recv" /\ \E i \in 1..Len(times) : times[i] = now

\* C30 as stated: with add_time calls at any moment and a consumer that is
\* always ready, the clock passes no installed wake time during a wait, the
\* wait that reaches an installed wake time ends with the timeout, and the
\* tick follows at that instant.
C30_NoWakeTimeLost ==
    [][ /\ tpc = "recv" /\ now' > now
            => \A i \in 1..Len(times) : times[i] >= now'
        /\ WakeTimeReached /\ tpc' # tpc => tpc' = "send"
        /\ tpc = "send" /\ tpc' # tpc => TickEmitted /\ now' = now
      ]_vars

\* ======================================================================
\* One thread that owns the Timer (timer.rs): it calls replace_times and
\* add_time and receives the ticks itself, one call at a time
\* ======================================================================

\* the clone of the tick receiver the owning thread receives on
OwnerRx == "a"

\* Timer::with_regular_update has returned; no other thread holds a clone
InitTimerOwner ==
    /\ InitTimerCommon
    /\ regular_update = PollInterval
    /\ opc = "idle" /\ omsg = NoMsg /\ calls = 0
    /\ rx = [r \in Receivers |-> IF r = OwnerRx THEN "idle" ELSE "dropped"]
    /\ plan = <<>>

\* the owning thread is not inside a call
OwnerFree == opc = "idle" /\ rx[OwnerRx] = "idle"

\* the owning thread calls replace_times
OwnerReplace == OwnerFree /\ CallReplace

\* the owning thread calls add_time
OwnerAdd == OwnerFree /\ CallAdd

\* the owning thread calls recv on its clone
OwnerRecv == OwnerFree /\ StartRecv(OwnerRx)

NextTimerOwner ==
    \/ OwnerReplace \/ OwnerAdd \/ SendOk \/ OwnerRecv
    \/ UpdateTimes \/ ComputeWait \/ RecvMsg \/ RecvTimeout
    \/ \E r \in Receivers : HandOver(r)
    \/ Advance

SpecTimerOwner == InitTimerOwner /\ [][NextTimerOwner]_vars

\* ------------------------------------------------------------------ C31

\* the timer thread is inside timer_tx.send(()) with no receiver inside recv
TimerBlockedInTick ==
    tpc = "send" /\ \A r \in Receivers : rx[r] # "receiving"

\* the owner is inside config_tx.send(..) and the buffer is full
OwnerBlockedInSend ==
    opc = "sending" /\ Len(config_q) = ConfigCapacity

\* C31 as stated: with one thread that owns the Timer, calls
\* replace_times / add_time and receives the ticks, the timer thread is never
\* blocked sending a tick while the owner is blocked sending a control
\* message on the full control channel.
C31_NoMutualBlock ==
    ~(TimerBlockedInTick /\ OwnerBlockedInSend)

\* ------------------------------------------------------------------ C32

\* C32 as stated: the timeout computed from the second clock read is never
\* negative and the timer thread never panics on its conversion.
C32_TimeoutNeverNegative ==
    /\ tpc = "compute" => wait_timeout(times, regular_update, now) >= 0
    /\ tpc # "panicked"

\* ------------------------------------------------------------------ C33

\* the worker is back at the top of its loop with a notification consumed
NotificationConsumed == wpc = "top" /\ wevent = "file_changed"

\* C33 as stated: behind every file-change notification the worker consumes,
\* the schedule file is read again before the next action is chosen.
C33_NotificationReloads ==
    [][ NotificationConsumed /\ wpc' # wpc
          => wevent' \in {"reloaded", "reload_failed"} ]_vars

\* ======================================================================
\* set_state (fritz_updater.rs) on a device that another actor switches too
\* ======================================================================

\* somebody else switches the device: the button on it, the app, a second
\* controller
OtherSwitch ==
    /\ upc # "none" /\ dev_kind # "absent"
    /\ dev_switch' = ~dev_switch
    /\ UNCHANGED <<dvars, tvars, wvars, svars, pvars, cvars, dev_kind, upc, ucall, ulog>>

NextUpdaterShared == NextUpdater \/ OtherSwitch

SpecUpdaterShared == InitUpdater /\ [][NextUpdaterShared]_vars

\* ------------------------------------------------------------------ C34

\* set_state returns Ok from its last step with its toggle request gone
\* through
ReturnsOk ==
    /\ upc = "decide" /\ upc' = "idle"
    /\ ulog'[Len(ulog')].result = "Ok(true)"

\* C34 as stated, for a FritzDect2XX, whose switch state is_on reports, and
\* the calls that send the toggle request: whenever set_state(desired, id)
\* returns Ok, the device is in the desired state right after the call,
\* whatever another actor did to the device between the status read and the
\* toggle request.
C34_OkMeansDesired ==
    [][ ReturnsOk /\ dev_kind = "dect2xx"
          => dev_switch' = (ucall.desired = On) ]_vars

\* ======================================================================
\* FritzClient::request (fritzapi/src/client.rs): the session id and the
\* retry of a command
\* ======================================================================

\* commands one client is asked for
MaxCommands == 2

\* the commands list_devices, device_stats, turn_on, turn_off and toggle send
Commands ==
    {"GetDeviceListInfos", "GetBasicDeviceStats", "SetSwitchOn",
     "SetSwitchOff", "SetSwitchToggle"}

\* what api::request hands back to request_attempt
ApiResults == {"Ok", "Forbidden", "OtherError"}

\* mutation: any error of the first attempt is retried
retries_anyError(res, request_count) == res # "Ok" /\ request_count = 0

\* line 132: Err(FritzError::Forbidden) if request_count == 0
retries(res, request_count) == res = "Forbidden" /\ request_count = 0

\* FritzClient::new: no session id yet
InitClient ==
    /\ NoConfig /\ NoTimer /\ NoWorker /\ NoUpdater /\ NoFritzctrl /\ NoDuration
    /\ c_sid = "None"
    /\ c_pc = "idle" /\ c_cmd = "none" /\ c_count = 0
    /\ c_trace = <<>> /\ c_ret = "none"
    /\ c_cmds = 0

\* lines 121-123: request(cmd) calls request_attempt(cmd, 0)
CallRequest ==
    /\ c_pc = "idle" /\ c_cmds < MaxCommands
    /\ c_cmd' \in Commands
    /\ c_cmds' = c_cmds + 1
    /\ c_pc' = "sid" /\ c_count' = 0
    /\ c_trace' = <<>> /\ c_ret' = "none"
    /\ UNCHANGED <<dvars, tvars, wvars, uvars, svars, pvars, c_sid>>

\* lines 127-130: self.sid.clone().or_else(|| self.update_sid().ok())
ObtainSid ==
    /\ c_pc = "sid"
    /\ IF c_sid = "Some"
         THEN c_pc' = "request" /\ UNCHANGED <<c_sid, c_trace, c_ret>>
         ELSE \/ /\ c_sid' = "Some"
                 /\ c_trace' = Append(c_trace, "get_sid_ok")
                 /\ c_pc' = "request" /\ UNCHANGED c_ret
              \/ /\ c_trace' = Append(c_trace, "get_sid_err")
                 /\ c_ret' = "Forbidden"
                 /\ c_pc' = "idle" /\ UNCHANGED c_sid
    /\ UNCHANGED <<dvars, tvars, wvars, uvars, svars, pvars, c_cmd, c_count, c_cmds>>

\* lines 131-137: api::request(cmd, sid) and the match on its result
ApiRequest ==
    /\ c_pc = "request"
    /\ \E res \in ApiResults :
          /\ c_trace' = Append(c_trace, res)
          /\ IF retries(res, c_count)
               THEN c_pc' = "refresh" /\ UNCHANGED c_ret
               ELSE c_pc' = "idle" /\ c_ret' = res
    /\ UNCHANGED <<dvars, tvars, wvars, uvars, svars, pvars, c_sid, c_cmd, c_count,
                   c_cmds>>

\* lines 133-134: let _ = self.update_sid(); request_attempt(cmd, count + 1)
RefreshAndRetry ==
    /\ c_pc = "refresh"
    /\ \/ /\ c_sid' = "Some"
          /\ c_trace' = Append(c_trace, "get_sid_ok")
       \/ /\ c_trace' = Append(c_trace, "get_sid_err")
          /\ UNCHANGED c_sid
    /\ c_count' = c_count + 1
    /\ c_pc' = "sid"
    /\ UNCHANGED <<dvars, tvars, wvars, uvars, svars, pvars, c_cmd, c_ret, c_cmds>>

NextClient == CallRequest \/ ObtainSid \/ ApiRequest \/ RefreshAndRetry

SpecClient == InitClient /\ [][NextClient]_vars

\* ------------------------------------------------------------------ C35

\* request has returned
RequestReturned == c_pc = "idle" /\ c_ret # "none"

\* positions of the API requests within what the command did
SentAt == {i \in 1..Len(c_trace) : c_trace[i] \in ApiResults}

\* C35 as stated: at most two API requests per command; a second one only
\* behind a first that returned Forbidden and a refreshed session id; the
\* result of the last request is what the caller gets; without a session id
\* Forbidden is returned and no API request is sent.
C35_Original ==
    RequestReturned =>
        /\ Cardinality(SentAt) <= 2
        /\ \A i, j \in SentAt : i < j =>
              /\ c_trace[i] = "Forbidden"
              /\ j = i + 2 /\ c_trace[i + 1] = "get_sid_ok"
        /\ SentAt # {} => c_ret = c_trace[Len(c_trace)]
        /\ SentAt = {} => c_ret = "Forbidden" /\ c_trace = <<"get_sid_err">>

\* C35, amended: as stated, with the second request sent behind an attempt
\* to refresh the session id, whether or not the attempt succeeded (after a
\* failed one the retry uses the session id that was just refused).
C35_RetryOnceOnForbidden ==
    RequestReturned =>
        /\ Cardinality(SentAt) <= 2
        /\ \A i, j \in SentAt : i < j =>
              /\ c_trace[i] = "Forbidden"
              /\ j = i + 2 /\ c_trace[i + 1] \in {"get_sid_ok", "get_sid_err"}
        /\ SentAt # {} => c_ret = c_trace[Len(c_trace)]
        /\ SentAt = {} => c_ret = "Forbidden" /\ c_trace = <<"get_sid_err">>

\* a command was retried behind a refresh and was refused again
C35_Witness ==
    /\ RequestReturned
    /\ c_trace = <<"Forbidden", "get_sid_ok", "Forbidden">>
    /\ c_ret = "Forbidden"

\* ======================================================================
\* StateChange::from_entries_between and Config::intervals (config.rs) on
\* reordered entry lists
\* ======================================================================

\* lines 85-157 as one function of the entry list and the window
from_entries_between(es, b, e) ==
    RetainChanging(
        EnsureEnd(EnsureBegin(DedupByWhen(SortByWhen(ExpandEntries(es, b, e))), b), e))

\* the orders a list of n entries can be written in
Orders(n) ==
    {f \in [1..n -> 1..n] : \A i, j \in 1..n : i # j => f[i] # f[j]}

\* the entry list in the order f
Permuted(es, f) == [i \in 1..Len(es) |-> es[f[i]]]

\* no two entries resolve to the same instant on the scanned days
NoSharedInstant ==
    \A p, q \in EntryInstances : p[1] # q[1] => InstantOf(p) # InstantOf(q)

\* ------------------------------------------------------------------ C36

\* C36: when no two entries resolve to the same instant within the window,
\* every permutation of the entry list yields the StateChange sequence and
\* the interval sequence of the list itself.
C36_OrderIndependent ==
    Returned /\ NoSharedInstant =>
        \A f \in Orders(Len(entries)) :
            LET changes == from_entries_between(Permuted(entries, f), begin, end)
            IN  /\ changes = state_changes
                /\ ZipIntervals(changes) = intervals

\* two daily entries listed latest first, switching the device every day
C36_Witness ==
    /\ Returned /\ NoSharedInstant
    /\ Len(entries) = 2
    /\ entries[1].when = Daily /\ entries[2].when = Daily
    /\ entries[1].time > entries[2].time
    /\ entries[1].state # entries[2].state
    /\ Len(intervals) >= 3

\* ------------------------------------------------------------------ C37

\* the instants the schedule is asked about
AskedInstants == 0..MaxSchedTime

\* n is the earliest action of sched behind at, the first listed among those
\* of its time, or 0 when there is none
IsEarliestBehind(sched, at, n) ==
    IF \A i \in 1..Len(sched) : sched[i].time <= at THEN n = 0
    ELSE /\ n \in 1..Len(sched) /\ sched[n].time > at
         /\ \A i \in 1..Len(sched) :
               sched[i].time > at
                   => /\ sched[n].time <= sched[i].time
                      /\ sched[i].time = sched[n].time => n <= i

\* l is the last action of sched not behind at, or 0 when there is none
IsLastNotBehind(sched, at, l) ==
    IF \A i \in 1..Len(sched) : sched[i].time > at THEN l = 0
    ELSE /\ l \in 1..Len(sched) /\ sched[l].time <= at
         /\ \A i \in 1..Len(sched) : sched[i].time <= at => i <= l

\* C37: on the sorted action list of a Schedule, at every instant,
\* next_action is the earliest action with a time strictly behind the instant
\* (the first listed among equal times) or None, last_action is the last
\* action with a time not behind it or None, and the two split the list: the
\* actions up to last_action are not behind the instant, all others are, and
\* next_action is the one right after last_action. This holds of the functions
\* of fritzctrl and of those of src/schedule.rs.
C37_NextAndLastPartition ==
    \A at \in AskedInstants :
        LET n == fritzctrl_next_action(s_actions, at)
            l == fritzctrl_last_action(s_actions, at)
        IN  /\ IsEarliestBehind(s_actions, at, n)
            /\ IsLastNotBehind(s_actions, at, l)
            /\ n = (IF l = Len(s_actions) THEN 0 ELSE l + 1)
            /\ \A i \in 1..Len(s_actions) : i <= l <=> s_actions[i].time <= at
            /\ next_action(s_actions, at) = n
            /\ last_action(s_actions, at) = l

\* start has asked for the next action of a schedule with two actions of one
\* time and got the first of them
C37_Witness ==
    /\ Len(s_actions) = 2
    /\ s_actions[1].time = s_actions[2].time
    /\ s_actions[1].id # s_actions[2].id
    /\ spc = "sleep" /\ s_next = 1
    /\ s_now < s_actions[1].time

====
